---- MODULE Spec2Model ----
(***************************************************************************)
(* A model of the DEHN interactive-manual backend: the VideoAgent session  *)
(* store (services/video_agent.py), the product store and its JSON files   *)
(* (services/product_manager.py), the searches of the EmbeddingService,    *)
(* the text functions of the PDFProcessor, and the WebSocket handler and   *)
(* the REST endpoints of main.py.                                          *)
(*                                                                         *)
(* The backend runs on one asyncio event loop.  A coroutine runs without   *)
(* interruption until it awaits real I/O; the only such awaits inside      *)
(* VideoAgent are the calls to the generative responder                    *)
(* (generate_content_async), so process_video_frame and process_audio are  *)
(* each two atomic steps (begin, resume) and create_session / end_session  *)
(* are one atomic step.  Python dicts are functions whose DOMAIN is the    *)
(* set of keys; a key that may be absent holds a sequence of length 0 or   *)
(* 1; None is a record of its own;                                         *)
(* datetime.now() reads the variable now, which Tick advances.  The        *)
(* timestamps the code writes once and never reads (created_at, a turn's   *)
(* and a progress entry's timestamp) are left out of the records; the ones *)
(* that are overwritten or used as a key (ended_at, connection_id) are     *)
(* kept.                                                                   *)
(***************************************************************************)
EXTENDS Integers, Sequences, FiniteSets, TLC

\* ------------------------------------------------------------- bounds
MaxProducts == 1
MaxSessions == 2
MaxCalls == 2
MaxClock == 1
MaxObjects == 1
MaxConns == 1

ProductIds == 1..MaxProducts
SessionIds == 1..MaxSessions
ConnIds == 1..MaxConns

\* ------------------------------------------------------------- state
VARIABLES
    products,            \* ProductManager.products: product id -> product dict
    active_sessions,     \* VideoAgent.active_sessions: session id -> session dict
    calls,               \* coroutines suspended at generate_content_async
    nextCall,            \* number of the next process_* call to start
    now,                 \* the wall clock read by datetime.now()
    outcome,             \* what the most recent call handed back to its caller
    active_connections,  \* main.active_connections: connection id -> websocket
    ws,                  \* per websocket: position of its handler coroutine
    searches,            \* search_similar coroutines awaiting the query embedding
    found,               \* what the most recent EmbeddingService call returned
    documents,           \* the document list handed to the EmbeddingService
    text,                \* the text handed to the PDFProcessor
    chunks,              \* what _split_text_into_chunks returned for it
    tags,                \* the section and safety level detected in it
    storage              \* data/processed: product id -> the two JSON files

vars == <<products, active_sessions, calls, nextCall, now, outcome,
          active_connections, ws, searches, found, documents, text, chunks, tags,
          storage>>

\* the state of the EmbeddingService callers and of the PDFProcessor
svars == <<searches, found, documents, text, chunks, tags>>

\* Python's None, as a value a product dict can be compared with.
None == [none |-> TRUE]

\* the value of _process_audio_to_text, a fixed placeholder string
AudioPlaceholder == "Audio processing not implemented yet"

\* the answer generate_text_response gives when the responder call raises
Apology == "I apologize, but I encountered an error processing your question. Please try again."

\* dict[key] = value
DictSet(d, k, v) == [x \in (DOMAIN d) \cup {k} |-> IF x = k THEN v ELSE d[x]]

\* del dict[key]
DictDel(d, k) == [x \in (DOMAIN d) \ {k} |-> d[x]]

EmptyDict == [x \in {} |-> 0]

ProductNames == {"DEHNventil"}

\* What process_pdf returns for the v-th edition of a manual: one page
\* of two text chunks.  The ids are built from product, page and chunk
\* number, so they are the same in every edition; the content differs.
Manual(v) ==
    [product_name |-> "DEHNventil",
     total_pages |-> 1,
     documents |->
        <<[id |-> 1,
           content |-> <<[word |-> "edition", upper |-> FALSE],
                         [word |-> ToString(v), upper |-> FALSE]>>,
           embedding |-> <<1, 0>>,
           metadata |-> [section |-> "general", safety_level |-> "info"]],
          [id |-> 2,
           content |-> <<[word |-> "warning", upper |-> FALSE],
                         [word |-> ToString(v), upper |-> FALSE]>>,
           embedding |-> <<1, 1>>,
           metadata |-> [section |-> "safety", safety_level |-> "warning"]]>>,
     embeddings |-> [text_count |-> 2, image_count |-> 0, total_count |-> 2]]

\* ------------------------------------------------------- the responder
\* What model.generate_content_async(parts) can give a frame analysis:
\* it raises, it answers free text, or it answers a JSON object that may
\* lack ai_response, and whose detected_objects is a list, is missing, or
\* is a value without a length.
FrameReplies ==
    [kind : {"raise", "text"}, has_ai : {TRUE}, objs : {"list"}, n : {0}]
    \cup [kind : {"json"}, has_ai : BOOLEAN, objs : {"missing", "scalar"}, n : {0}]
    \cup [kind : {"json"}, has_ai : BOOLEAN, objs : {"list"}, n : 0..MaxObjects]

\* What it can give generate_text_response: it raises, it answers free text,
\* a JSON object with an answer, or JSON without an answer key.
TextReplies == {"raise", "text", "json", "json_no_answer"}

NoOutcome == [op |-> "none", kind |-> "none", exc |-> "", before |-> "none"]

\* no EmbeddingService call has returned yet
NoResult == [op |-> "none", result |-> <<>>]

\* a text is the list of its words, with or without white space around
\* them; the empty string has no word and no white space
NoText == [words |-> <<>>, blank |-> FALSE]

\* _split_text_into_chunks has not returned yet
NoChunks == [returned |-> FALSE, value |-> <<>>]

NoTags == [section |-> "none", safety_level |-> "none"]

StatusOf(sid) ==
    IF sid \in DOMAIN active_sessions THEN active_sessions[sid].status ELSE "unknown"

\* the services after construction
InitServices ==
    /\ products = EmptyDict
    /\ active_sessions = EmptyDict
    /\ calls = {}
    /\ nextCall = 1
    /\ now = 0
    /\ outcome = NoOutcome
    /\ active_connections = EmptyDict
    /\ ws = [c \in ConnIds |-> [pc |-> "closed", connection_id |-> <<0, 0>>,
                                session_id |-> 0, sent |-> "none"]]
    /\ searches = {}
    /\ found = NoResult
    /\ chunks = NoChunks
    /\ tags = NoTags
    /\ storage = EmptyDict

Init ==
    /\ InitServices
    /\ documents = <<>>
    /\ text = NoText

\* time passes
Tick ==
    /\ now < MaxClock
    /\ now' = now + 1
    /\ UNCHANGED <<products, active_sessions, calls, nextCall, outcome,
                   active_connections, ws, svars, storage>>

\* ------------------------------------------------------ ProductManager
\* the dict add_product stores, built from what process_pdf returned
ProductDict(product_id, product_name, processed_data) ==
    [none |-> FALSE, id |-> product_id, name |-> product_name,
     total_pages |-> processed_data.total_pages,
     documents |-> processed_data.documents,
     embeddings |-> processed_data.embeddings,
     metadata |-> processed_data]

\* _save_product: documents.json takes data["documents"] and
\* processed_data.json every other key of data; the directory of the
\* product holds the two files
_save_product(files, product_id, data) ==
    DictSet(files, product_id,
            [processed_data |-> DictDel(data, "documents"),
             documents |-> IF "documents" \in DOMAIN data
                           THEN data["documents"] ELSE <<>>])

\* add_product that extends the stored document list with the new one
add_product_merging(product_id, product_name, processed_data) ==
    /\ products' = DictSet(products, product_id,
           IF product_id \in DOMAIN products
           THEN [ProductDict(product_id, product_name, processed_data)
                    EXCEPT !.documents = products[product_id].documents \o @]
           ELSE ProductDict(product_id, product_name, processed_data))
    /\ storage' = _save_product(storage, product_id, processed_data)
    /\ UNCHANGED <<active_sessions, calls, nextCall, now, outcome,
                   active_connections, ws, svars>>

\* add_product: the entry is assigned a new dict in one statement;
\* _save_product, which follows, does not change it and writes what
\* process_pdf returned
add_product(product_id, product_name, processed_data) ==
    /\ products' = DictSet(products, product_id,
                           ProductDict(product_id, product_name, processed_data))
    /\ storage' = _save_product(storage, product_id, processed_data)
    /\ UNCHANGED <<active_sessions, calls, nextCall, now, outcome,
                   active_connections, ws, svars>>

get_product(product_id) ==
    IF product_id \in DOMAIN products THEN products[product_id] ELSE None


\* --------------------------------------------------------- VideoAgent
\* str(uuid.uuid4()): a random 122-bit token; the ids it can return are
\* taken to be the ones not handed out before.
uuid4 == SessionIds \ DOMAIN active_sessions

\* a session dict whose step counter starts at 0
NewSession_step0(session_id, product_id, product_data) ==
    [id |-> session_id,
     product_id |-> product_id,
     product_name |-> product_data.name,
     product_context |-> product_data,
     status |-> "active",
     conversation_history |-> <<>>,
     detected_objects_history |-> <<>>,
     current_step |-> 0,
     installation_progress |-> EmptyDict,
     ended_at |-> <<>>]

\* the session dict built by create_session
NewSession(session_id, product_id, product_data) ==
    [id |-> session_id,
     product_id |-> product_id,
     product_name |-> product_data.name,
     product_context |-> product_data,
     status |-> "active",
     conversation_history |-> <<>>,
     detected_objects_history |-> <<>>,
     current_step |-> 1,
     installation_progress |-> EmptyDict,
     ended_at |-> <<>>]

\* create_session that assigns a new store holding only the new session
create_session_replaces_store(product_id, product_data, session_id) ==
    IF product_data = None
    THEN /\ active_sessions' = active_sessions
         /\ outcome' = [op |-> "create_session", kind |-> "raised", exc |-> "TypeError",
                        before |-> "unknown"]
    ELSE /\ active_sessions' = DictSet(EmptyDict, session_id,
                                       NewSession(session_id, product_id, product_data))
         /\ outcome' = [op |-> "create_session", kind |-> "returned", exc |-> "",
                        before |-> "unknown"]

\* create_session that reads the name with a default and so stores a
\* session for an absent product
create_session_accepts_none(product_id, product_data, session_id) ==
    /\ active_sessions' = DictSet(active_sessions, session_id,
           [NewSession(session_id, product_id,
                       IF product_data = None
                       THEN ProductDict(product_id, "unknown",
                                        [total_pages |-> 0, documents |-> <<>>,
                                         embeddings |-> EmptyDict])
                       ELSE product_data)
            EXCEPT !.product_context = product_data])
    /\ outcome' = [op |-> "create_session", kind |-> "returned", exc |-> "",
                   before |-> "unknown"]

\* create_session: one step, no suspension.  product_data["name"] raises
\* TypeError when product_data is None, before anything is stored.
create_session(product_id, product_data, session_id) ==
    IF product_data = None
    THEN /\ active_sessions' = active_sessions
         /\ outcome' = [op |-> "create_session", kind |-> "raised", exc |-> "TypeError",
                        before |-> "unknown"]
    ELSE /\ active_sessions' = DictSet(active_sessions, session_id,
                                       NewSession(session_id, product_id, product_data))
         /\ outcome' = [op |-> "create_session", kind |-> "returned", exc |-> "",
                        before |-> "unknown"]

\* list[:n]
Prefix(list, n) == SubSeq(list, 1, IF n < Len(list) THEN n ELSE Len(list))

\* the documents process_audio hands generate_text_response, which puts
\* relevant_docs[:5] of them into the prompt
AudioContext(session) == Prefix(Prefix(session.product_context.documents, 5), 5)

\* The part of process_video_frame / process_audio up to the await of the
\* responder: the lookup of the session, then the coroutine is suspended.
\* _process_audio_to_text does not suspend and returns the placeholder.
process_begin(op, owner, session_id, audio_transcript) ==
    IF session_id \notin DOMAIN active_sessions
    THEN /\ outcome' = [op |-> op, kind |-> "raised", exc |-> "ValueError",
                        before |-> "unknown"]
         /\ UNCHANGED <<calls, nextCall>>
    ELSE IF /\ op = "process_audio"
            /\ "documents" \notin DOMAIN active_sessions[session_id].product_context
    THEN \* the subscript raises inside the try block
         /\ outcome' = [op |-> op, kind |-> "error_result", exc |-> "",
                        before |-> active_sessions[session_id].status]
         /\ UNCHANGED <<calls, nextCall>>
    ELSE /\ calls' = calls \cup
               {IF op = "process_audio"
                THEN [id |-> nextCall, op |-> op, sid |-> session_id,
                      audio_transcript |-> audio_transcript,
                      owner |-> owner,
                      before |-> active_sessions[session_id].status,
                      relevant_docs |-> AudioContext(active_sessions[session_id])]
                ELSE [id |-> nextCall, op |-> op, sid |-> session_id,
                      audio_transcript |-> audio_transcript,
                      owner |-> owner,
                      before |-> active_sessions[session_id].status]}
         /\ nextCall' = nextCall + 1
         /\ outcome' = outcome

\* _parse_video_analysis: a reply that starts with '{' and parses is
\* returned as parsed; anything else becomes the fallback dict.
_parse_video_analysis(reply) ==
    IF reply.kind = "json"
    THEN LET d1 == IF reply.has_ai
                   THEN DictSet(EmptyDict, "ai_response", "guidance")
                   ELSE EmptyDict
         IN  CASE reply.objs = "list" ->
                    DictSet(d1, "detected_objects",
                            [is_list |-> TRUE, items |-> [i \in 1..reply.n |-> "component"]])
               [] reply.objs = "scalar" ->
                    DictSet(d1, "detected_objects", [is_list |-> FALSE, items |-> <<>>])
               [] OTHER -> d1
    ELSE [ai_response |-> "raw reply text",
          detected_objects |-> [is_list |-> TRUE, items |-> <<>>]]

\* list.insert(0, turn)
AppendTurn_front(history, turn) == <<turn>> \o history

\* list.append
AppendTurn(history, turn) == Append(history, turn)

FrameTurn(call, analysis_result) ==
    [frame_analyzed |-> TRUE,
     audio_transcript |-> call.audio_transcript,
     ai_response |-> analysis_result["ai_response"],
     detected_objects |-> analysis_result["detected_objects"],
     call |-> call.id]

\* the progress entry written for the current step
ProgressEntry(session, analysis_result) ==
    [completed |-> Len(analysis_result["detected_objects"].items) > 0,
     components_detected |-> Len(analysis_result["detected_objects"].items)]

\* _update_installation_progress, for an analysis whose detected_objects
\* has a length
_update_installation_progress(session, analysis_result) ==
    IF "detected_objects" \in DOMAIN analysis_result
    THEN [session EXCEPT !.installation_progress =
              DictSet(@, session.current_step, ProgressEntry(session, analysis_result))]
    ELSE session

Result(call, kind) ==
    [op |-> call.op, kind |-> kind, exc |-> "", before |-> call.before]

\* process_video_frame from the responder's reply to the return
process_video_frame_resume(call, reply) ==
    LET session == active_sessions[call.sid]
        analysis_result == _parse_video_analysis(reply)
        appended == [session EXCEPT !.conversation_history =
                         AppendTurn(@, FrameTurn(call, analysis_result))]
    IN  IF \/ reply.kind = "raise"
           \/ "ai_response" \notin DOMAIN analysis_result
           \/ "detected_objects" \notin DOMAIN analysis_result
        THEN \* an exception before the append: the error dict is returned
             /\ active_sessions' = active_sessions
             /\ outcome' = Result(call, "error_result")
        ELSE IF ~analysis_result["detected_objects"].is_list
        THEN \* len() raises inside _update_installation_progress
             /\ active_sessions' = [active_sessions EXCEPT ![call.sid] = appended]
             /\ outcome' = Result(call, "error_result")
        ELSE /\ active_sessions' = [active_sessions EXCEPT ![call.sid] =
                     _update_installation_progress(appended, analysis_result)]
             /\ outcome' = Result(call, "returned")

\* a float with one decimal, as the fraction tenths / 10
Tenths(tenths) == [num |-> tenths, den |-> 10]

\* the dict generate_text_response returns when json.loads raises
\* JSONDecodeError on the reply
Fallback(response_text) ==
    [answer |-> response_text,
     sources |-> <<[page |-> "Multiple", section |-> "General",
                    relevance |-> Tenths(8)]>>,
     confidence |-> Tenths(7),
     safety_warnings |-> <<>>]

\* generate_text_response from the responder's reply on: the dict handed
\* back to the caller.  A reply that json.loads accepts is returned as
\* parsed, whatever keys it has.
generate_text_response(reply) ==
    CASE reply = "raise" ->
             [answer |-> Apology, sources |-> <<>>, confidence |-> Tenths(0),
              safety_warnings |-> <<>>]
      [] reply = "text" -> Fallback("raw reply text")
      [] reply = "json" ->
             [answer |-> "detailed answer",
              sources |-> <<[page |-> 1, section |-> "Installation",
                             relevance |-> Tenths(9)]>>,
              confidence |-> Tenths(9),
              safety_warnings |-> <<"warning 1">>]
      [] OTHER -> EmptyDict

AudioTurn(call, response) ==
    [audio_transcript |-> call.audio_transcript,
     ai_response |-> response["answer"],
     frame_analyzed |-> FALSE,
     call |-> call.id]

\* process_audio from the responder's reply to the return
process_audio_resume(call, reply) ==
    LET session == active_sessions[call.sid]
        response == generate_text_response(reply)
    IN  IF "answer" \notin DOMAIN response
        THEN /\ active_sessions' = active_sessions
             /\ outcome' = Result(call, "error_result")
        ELSE /\ active_sessions' = [active_sessions EXCEPT ![call.sid] =
                     [session EXCEPT !.conversation_history =
                          AppendTurn(@, AudioTurn(call, response))]]
             /\ outcome' = Result(call, "returned")

\* end_session that refuses a session that is not active
end_session_strict(session_id) ==
    IF StatusOf(session_id) = "active"
    THEN /\ active_sessions' = [active_sessions EXCEPT
                ![session_id] = [@ EXCEPT !.status = "ended", !.ended_at = <<now>>]]
         /\ outcome' = [op |-> "end_session", kind |-> "returned", exc |-> "",
                        before |-> "active"]
    ELSE /\ active_sessions' = active_sessions
         /\ outcome' = [op |-> "end_session", kind |-> "raised", exc |-> "ValueError",
                        before |-> StatusOf(session_id)]

\* end_session that ends every session bound to the same product
end_session_of_product(session_id) ==
    /\ IF session_id \in DOMAIN active_sessions
       THEN active_sessions' = [s \in DOMAIN active_sessions |->
                IF active_sessions[s].product_id = active_sessions[session_id].product_id
                THEN [active_sessions[s] EXCEPT !.status = "ended", !.ended_at = <<now>>]
                ELSE active_sessions[s]]
       ELSE active_sessions' = active_sessions
    /\ outcome' = [op |-> "end_session", kind |-> "returned", exc |-> "",
                   before |-> StatusOf(session_id)]

\* end_session: one step, no suspension
end_session(session_id) ==
    /\ IF session_id \in DOMAIN active_sessions
       THEN active_sessions' = [active_sessions EXCEPT
                ![session_id] = [@ EXCEPT !.status = "ended", !.ended_at = <<now>>]]
       ELSE active_sessions' = active_sessions
    /\ outcome' = [op |-> "end_session", kind |-> "returned", exc |-> "",
                   before |-> StatusOf(session_id)]


\* ------------------------------------------- callers of the VideoAgent
\* A caller that holds the VideoAgent object calls create_session with
\* what get_product gave it.
CallCreateSession(product_id) ==
    /\ \E session_id \in (IF get_product(product_id) = None THEN {0} ELSE uuid4) :
           create_session(product_id, get_product(product_id), session_id)
    /\ UNCHANGED <<products, calls, nextCall, now, active_connections, ws,
                   svars, storage>>

CallProcessVideoFrame(session_id, audio_base64) ==
    /\ nextCall <= MaxCalls
    /\ process_begin("process_video_frame", 0, session_id,
                     IF audio_base64 THEN AudioPlaceholder ELSE "None")
    /\ UNCHANGED <<products, active_sessions, now, active_connections, ws,
                   svars, storage>>

CallProcessAudio(session_id) ==
    /\ nextCall <= MaxCalls
    /\ process_begin("process_audio", 0, session_id, AudioPlaceholder)
    /\ UNCHANGED <<products, active_sessions, now, active_connections, ws,
                   svars, storage>>

CallEndSession(session_id) ==
    /\ end_session(session_id)
    /\ UNCHANGED <<products, calls, nextCall, now, active_connections, ws,
                   svars, storage>>

\* the handler that awaited the call goes on to send the result
HandlerResumed(call) ==
    IF call.owner = 0
    THEN ws' = ws
    ELSE ws' = [ws EXCEPT ![call.owner].pc = "send_result"]

\* the responder answers a suspended process_video_frame
FrameReply(call, reply) ==
    /\ call \in calls
    /\ call.op = "process_video_frame"
    /\ process_video_frame_resume(call, reply)
    /\ calls' = calls \ {call}
    /\ HandlerResumed(call)
    /\ UNCHANGED <<products, nextCall, now, active_connections, svars, storage>>

\* the responder answers a suspended process_audio
AudioReply(call, reply) ==
    /\ call \in calls
    /\ call.op = "process_audio"
    /\ process_audio_resume(call, reply)
    /\ calls' = calls \ {call}
    /\ HandlerResumed(call)
    /\ UNCHANGED <<products, nextCall, now, active_connections, svars, storage>>

\* ------------------------------------------------ video_agent_websocket
\* finally: the connection entry is deleted if it is there
Finally(c) ==
    /\ active_connections' =
           IF ws[c].connection_id \in DOMAIN active_connections
           THEN DictDel(active_connections, ws[c].connection_id)
           ELSE active_connections

\* accept() has returned: the connection is registered, the product is
\* looked up, and either the error or session_ready is about to be sent.
WsOpen(c, product_id) ==
    LET connection_id == <<product_id, now>>
        product_data == get_product(product_id)
    IN  /\ ws[c].pc = "closed"
        /\ active_connections' = DictSet(active_connections, connection_id, c)
        /\ IF product_data = None
           THEN /\ ws' = [ws EXCEPT ![c] = [pc |-> "send_error",
                              connection_id |-> connection_id,
                              session_id |-> 0, sent |-> "none"]]
                /\ UNCHANGED <<active_sessions, outcome>>
           ELSE \E session_id \in uuid4 :
                /\ create_session(product_id, product_data, session_id)
                /\ ws' = [ws EXCEPT ![c] = [pc |-> "send_ready",
                              connection_id |-> connection_id,
                              session_id |-> session_id, sent |-> "none"]]
        /\ UNCHANGED <<products, calls, nextCall, now, svars, storage>>

\* send_json has returned: after an error message the handler ends
\* through its finally block, otherwise it waits for the next message
WsSent(c) ==
    /\ ws[c].pc \in {"send_error", "send_exception", "send_ready", "send_result"}
    /\ IF ws[c].pc \in {"send_error", "send_exception"}
       THEN /\ ws' = [ws EXCEPT ![c].pc = "closed",
                                ![c].sent = IF ws[c].pc = "send_error"
                                            THEN "Product not found" ELSE "error"]
            /\ Finally(c)
       ELSE /\ ws' = [ws EXCEPT ![c].pc = "receive",
                                ![c].sent = IF ws[c].pc = "send_ready"
                                            THEN "session_ready" ELSE "result"]
            /\ UNCHANGED active_connections
    /\ UNCHANGED <<products, active_sessions, calls, nextCall, now, outcome,
                   svars, storage>>

\* receive_json has returned: a message of one of the three types, or
\* one that lacks a key the handler reads (except Exception: the error
\* is sent back)
WsReceive(c, type, audio) ==
    /\ ws[c].pc = "receive"
    /\ CASE type = "video_frame" ->
             /\ nextCall <= MaxCalls
             /\ process_begin("process_video_frame", c, ws[c].session_id,
                              IF audio THEN AudioPlaceholder ELSE "None")
             /\ ws' = [ws EXCEPT ![c].pc = "in_call"]
             /\ UNCHANGED <<active_sessions, active_connections>>
         [] type = "audio_only" ->
             /\ audio
             /\ nextCall <= MaxCalls
             /\ process_begin("process_audio", c, ws[c].session_id, AudioPlaceholder)
             /\ ws' = [ws EXCEPT ![c].pc = "in_call"]
             /\ UNCHANGED <<active_sessions, active_connections>>
         [] type = "end_session" ->
             /\ ~audio
             /\ end_session(ws[c].session_id)
             /\ ws' = [ws EXCEPT ![c].pc = "closed"]
             /\ Finally(c)
             /\ UNCHANGED <<calls, nextCall>>
         [] OTHER ->
             /\ ~audio
             /\ ws' = [ws EXCEPT ![c].pc = "send_exception"]
             /\ UNCHANGED <<active_sessions, calls, nextCall, outcome,
                            active_connections>>
    /\ UNCHANGED <<products, now, svars, storage>>

\* the client went away: receive_json or send_json raises
\* WebSocketDisconnect, which is logged, and the finally block runs
WsDisconnect(c) ==
    /\ ws[c].pc \in {"send_error", "send_exception", "send_ready", "send_result",
                     "receive"}
    /\ ws' = [ws EXCEPT ![c].pc = "closed"]
    /\ Finally(c)
    /\ UNCHANGED <<products, active_sessions, calls, nextCall, now, outcome,
                   svars, storage>>

\* The VideoAgent object under any callers: calls on one session may be
\* in flight together.
Next ==
    \/ Tick
    \/ \E p \in ProductIds, n \in ProductNames : add_product(p, n, Manual(1))
    \/ \E p \in ProductIds : CallCreateSession(p)
    \/ \E s \in SessionIds, a \in BOOLEAN : CallProcessVideoFrame(s, a)
    \/ \E s \in SessionIds : CallProcessAudio(s)
    \/ \E s \in SessionIds : CallEndSession(s)
    \/ \E call \in calls, reply \in FrameReplies : FrameReply(call, reply)
    \/ \E call \in calls, reply \in TextReplies : AudioReply(call, reply)

Spec == Init /\ [][Next]_vars

\* The VideoAgent driven by the WebSocket handlers of main.py, each of
\* which awaits one call at a time on the session it created, beside a
\* caller of create_session.
NextWs ==
    \/ Tick
    \/ \E p \in ProductIds, n \in ProductNames : add_product(p, n, Manual(1))
    \/ \E p \in ProductIds : CallCreateSession(p)
    \/ \E call \in calls, reply \in FrameReplies : FrameReply(call, reply)
    \/ \E call \in calls, reply \in TextReplies : AudioReply(call, reply)
    \/ \E c \in ConnIds, p \in ProductIds : WsOpen(c, p)
    \/ \E c \in ConnIds : WsSent(c)
    \/ \E c \in ConnIds, type \in {"video_frame", "audio_only", "end_session",
                                  "malformed"},
          a \in BOOLEAN : WsReceive(c, type, a)
    \/ \E c \in ConnIds : WsDisconnect(c)

SpecWs == Init /\ [][NextWs]_vars

\* ---------------------------------------------------- EmbeddingService
MaxDocs == 3
MaxTopK == 3
MaxClusters == 3

\* A word of a text: a spelling and whether it is written in capitals.
Word(spelling, upper) == [word |-> spelling, upper |-> upper]

\* str.lower()
Lower(words) == [i \in 1..Len(words) |-> Word(words[i].word, FALSE)]

\* the words of the model that hold a keyword without being it
Inflections == {<<"warning", "warnings">>}

\* the keyword is a substring of the spelling
Occurs(keyword, spelling) == spelling = keyword \/ <<keyword, spelling>> \in Inflections

\* keyword in text, for a lower-case keyword: a match lies within a word
\* and is sensitive to case
Contains(words, keyword) ==
    \E i \in 1..Len(words) : ~words[i].upper /\ Occurs(keyword, words[i].word)

\* The embeddings a stored document can carry: none (a failed batch),
\* one of another dimension than the query's, and ones of the query's
\* dimension at different angles to it.
DocEmbeddings == {<<>>, <<1>>, <<1, 0>>, <<1, 1>>, <<-1, 1>>}

\* What generate_text_embedding / generate_image_embedding can return:
\* [] when the API call fails, or a vector.
QueryEmbeddings == {<<>>, <<1, 0>>, <<1, 1>>}

SafetyLevels == {"critical", "warning", "info"}

\* the document dict process_pdf builds for a text chunk
TextDoc(id, content, section, safety_level, embedding) ==
    [id |-> id, content |-> content, embedding |-> embedding,
     metadata |-> [section |-> section, safety_level |-> safety_level]]

\* A float similarity s is held as the fraction num/den = sign(s) * s^2,
\* den > 0, which orders as s does; 0.0 is 0/1.
Zero == [num |-> 0, den |-> 1]

SimGreater(x, y) == x.num * y.den > y.num * x.den

SimEqual(x, y) == x.num * y.den = y.num * x.den

RECURSIVE Dot(_, _)
Dot(a, b) == IF a = <<>> \/ b = <<>> THEN 0
             ELSE Head(a) * Head(b) + Dot(Tail(a), Tail(b))

\* the cosine of the common prefix of the two vectors
_cosine_similarity_zip(vec1, vec2) ==
    LET dot == Dot(vec1, vec2)
        norms == Dot(vec1, vec1) * Dot(vec2, vec2)
    IN  IF norms = 0 \/ dot = 0 THEN Zero
        ELSE [num |-> IF dot > 0 THEN dot * dot ELSE 0 - dot * dot, den |-> norms]

\* _cosine_similarity: 0.0 for an empty vector or two lengths, else
\* sklearn's cosine_similarity, which is 0.0 for a vector of norm 0
_cosine_similarity(vec1, vec2) ==
    IF vec1 = <<>> \/ vec2 = <<>> \/ Len(vec1) # Len(vec2)
    THEN Zero
    ELSE LET dot == Dot(vec1, vec2)
             norms == Dot(vec1, vec1) * Dot(vec2, vec2)
         IN  IF norms = 0 \/ dot = 0 THEN Zero
             ELSE [num |-> IF dot > 0 THEN dot * dot ELSE 0 - dot * dot,
                   den |-> norms]

\* "embedding" in doc and doc["embedding"]
HasEmbedding(doc) == "embedding" \in DOMAIN doc /\ doc["embedding"] # <<>>

\* the list of {"document", "similarity"} dicts built by the loop over
\* the documents
Similarities(embedding, docs) ==
    LET kept == SelectSeq(docs, HasEmbedding)
    IN  [i \in 1..Len(kept) |->
            [document |-> kept[i],
             similarity |-> _cosine_similarity(embedding, kept[i]["embedding"])]]

\* the place list.sort(key=similarity, reverse=True) gives the item at
\* index i: behind the items of greater similarity and the earlier items
\* of equal similarity (the sort is stable, also when reversed)
RankOf(items, i) ==
    Cardinality({j \in 1..Len(items) :
                    SimGreater(items[j].similarity, items[i].similarity)})
  + Cardinality({j \in 1..i :
                    SimEqual(items[j].similarity, items[i].similarity)})

SortReverse(items) ==
    [r \in 1..Len(items) |-> items[CHOOSE i \in 1..Len(items) : RankOf(items, i) = r]]

\* list[:n] for n >= 0
Slice(list, n) == SubSeq(list, 1, IF n < Len(list) THEN n ELSE Len(list))

\* [item["document"] for item in items[:top_k]]
TopDocuments(items, top_k) ==
    LET top == Slice(items, top_k) IN [i \in 1..Len(top) |-> top[i].document]

\* search_similar that sorts ascending (reverse left out)
search_similar_ascending(query_embedding, docs, top_k) ==
    IF query_embedding = <<>>
    THEN <<>>
    ELSE LET sorted == SortReverse(Similarities(query_embedding, docs))
         IN  TopDocuments([i \in 1..Len(sorted) |-> sorted[Len(sorted) + 1 - i]], top_k)

\* search_similar from the query embedding on: [] when the embedding
\* call failed, else the top_k documents by similarity
search_similar(query_embedding, docs, top_k) ==
    IF query_embedding = <<>>
    THEN <<>>
    ELSE TopDocuments(SortReverse(Similarities(query_embedding, docs)), top_k)

\* the loop that drops a document whose id was seen and stops at top_k
RECURSIVE Unique(_, _, _)
Unique(results, unique_results, top_k) ==
    IF results = <<>>
    THEN unique_results
    ELSE LET doc == Head(results)
             seen_ids == {unique_results[i].id : i \in 1..Len(unique_results)}
             next == IF doc.id \notin seen_ids
                     THEN Append(unique_results, doc)
                     ELSE unique_results
         IN  IF Len(next) >= top_k
             THEN next
             ELSE Unique(Tail(results), next, top_k)

\* search_multimodal that returns the first top_k of the concatenation
search_multimodal_keeps_duplicates(query, query_embedding, image_base64, image_embedding, docs, top_k) ==
    LET text_results == IF query THEN search_similar(query_embedding, docs, top_k)
                        ELSE <<>>
        image_results == IF image_base64 /\ image_embedding # <<>>
                         THEN TopDocuments(SortReverse(Similarities(image_embedding, docs)),
                                           top_k)
                         ELSE <<>>
    IN  Slice(text_results \o image_results, top_k)

\* search_multimodal, given what the two embedding calls return; query
\* and image_base64 say whether the caller passed a text and an image
search_multimodal(query, query_embedding, image_base64, image_embedding, docs, top_k) ==
    LET text_results == IF query THEN search_similar(query_embedding, docs, top_k)
                        ELSE <<>>
        image_results == IF image_base64 /\ image_embedding # <<>>
                         THEN TopDocuments(SortReverse(Similarities(image_embedding, docs)),
                                           top_k)
                         ELSE <<>>
    IN  Unique(text_results \o image_results, <<>>, top_k)

\* dict.get(key, default)
Get(d, k, default) == IF k \in DOMAIN d THEN d[k] ELSE default

\* the top_k find_relevant_sections passes to search_similar
RelevantTopK == 10

\* dict.get(key): the value, or None, as a list of one value or of none
GetOptional(d, k) == IF k \in DOMAIN d THEN <<d[k]>> ELSE <<>>

\* doc.get("metadata", {}).get("section") == section_type
InSection(doc, section_type) == GetOptional(doc.metadata, "section") = <<section_type>>

\* find_relevant_sections: the documents of the section, if one is
\* given (a list of one section type, or of none), ranked by
\* search_similar
find_relevant_sections(query_embedding, docs, section_type) ==
    LET filtered_docs ==
            IF section_type = <<>>
            THEN docs
            ELSE LET keep(doc) == InSection(doc, section_type[1])
                 IN  SelectSeq(docs, keep)
    IN  search_similar(query_embedding, filtered_docs, RelevantTopK)

SafetyKeywords == {"safety", "warning", "caution", "danger"}

\* the test that makes a document safety-related
IsSafetyRelated(doc) ==
    \/ GetOptional(doc.metadata, "section") = <<"safety">>
    \/ GetOptional(doc.metadata, "safety_level") \in {<<"critical">>, <<"warning">>}
    \/ \E keyword \in SafetyKeywords : Contains(Lower(doc.content), keyword)

\* safety_priority: priority_map.get(level, 0)
safety_priority(doc) ==
    LET level == Get(doc.metadata, "safety_level", "info")
    IN  CASE level = "critical" -> 3
          [] level = "warning" -> 2
          [] level = "info" -> 1
          [] OTHER -> 0

\* the safety-related documents, each with its sort key
SafetyItems(docs) ==
    LET safety_docs == SelectSeq(docs, IsSafetyRelated)
    IN  [i \in 1..Len(safety_docs) |->
            [document |-> safety_docs[i],
             similarity |-> [num |-> safety_priority(safety_docs[i]), den |-> 1]]]

\* get_safety_related_content that leaves the list in document order
get_safety_related_content_unsorted(docs) ==
    LET items == SafetyItems(docs)
    IN  [i \in 1..Len(items) |-> items[i].document]

\* get_safety_related_content: filter, then sort(key=safety_priority,
\* reverse=True)
get_safety_related_content(docs) ==
    LET sorted == SortReverse(SafetyItems(docs))
    IN  [i \in 1..Len(sorted) |-> sorted[i].document]

\* KMeans(n_clusters, random_state=42).fit_predict(embeddings) raises on
\* fewer than one cluster and on rows of unequal length
KMeansRaises(embeddings, n_clusters) ==
    \/ n_clusters < 1
    \/ \E i, j \in DOMAIN embeddings : Len(embeddings[i]) # Len(embeddings[j])

\* the label vectors fit_predict can return: one label below n_clusters
\* for each embedding
KMeansLabels(embeddings, n_clusters) ==
    [1..Len(embeddings) -> 0..(n_clusters - 1)]

\* the documents of the list that carry the label, in list order
Labelled(valid_docs, cluster_labels, label) ==
    LET at == SelectSeq([i \in 1..Len(valid_docs) |-> i],
                        LAMBDA i : cluster_labels[i] = label)
    IN  [k \in 1..Len(at) |-> valid_docs[at[k]]]

\* cluster_documents whose degenerate case returns the whole list
cluster_documents_whole_list(docs, n_clusters, cluster_labels) ==
    LET valid_docs == SelectSeq(docs, HasEmbedding)
        embeddings == [i \in 1..Len(valid_docs) |-> valid_docs[i]["embedding"]]
    IN  IF Len(embeddings) < n_clusters \/ KMeansRaises(embeddings, n_clusters)
        THEN (0 :> docs)
        ELSE [label \in {cluster_labels[i] : i \in 1..Len(valid_docs)} |->
                  Labelled(valid_docs, cluster_labels, label)]

\* cluster_documents: the dict {"cluster_<label>": documents}, given the
\* labels KMeans returns; a key is modelled by its label
cluster_documents(docs, n_clusters, cluster_labels) ==
    LET valid_docs == SelectSeq(docs, HasEmbedding)
        embeddings == [i \in 1..Len(valid_docs) |-> valid_docs[i]["embedding"]]
    IN  IF Len(embeddings) < n_clusters
        THEN (0 :> valid_docs)
        ELSE IF KMeansRaises(embeddings, n_clusters)
        THEN (0 :> docs)
        ELSE [label \in {cluster_labels[i] : i \in 1..Len(valid_docs)} |->
                  Labelled(valid_docs, cluster_labels, label)]

\* ------------------------------------- callers of the EmbeddingService
\* the lists of n documents of the given kinds, numbered in list order
DocLists(Kinds, n) ==
    {[i \in 1..n |-> [kind[i] EXCEPT !.id = i]] : kind \in [1..n -> Kinds]}

PlainContent == <<Word("mount", FALSE), Word("arrester", FALSE)>>

\* documents that differ in their embedding only
SearchCorpus ==
    {TextDoc(0, PlainContent, "general", "info", e) : e \in DocEmbeddings}

InitSearch ==
    /\ InitServices
    /\ \E n \in 0..MaxDocs : documents \in DocLists(SearchCorpus, n)
    /\ text = NoText

\* A call of search_similar on the list, run from the reply of the
\* embedding call to its return.  Each behaviour applies one call to the
\* list it drew.
CallSearchSimilar(query_embedding, top_k) ==
    /\ found = NoResult
    /\ found' = [op |-> "search_similar",
                 documents |-> documents,
                 query_embedding |-> query_embedding,
                 top_k |-> top_k,
                 result |-> search_similar(query_embedding, documents, top_k)]
    /\ UNCHANGED <<products, active_sessions, calls, nextCall, now, outcome,
                   active_connections, ws, searches, documents, text, chunks, tags, storage>>

\* a call of search_multimodal on the list
CallSearchMultimodal(query, query_embedding, image_base64, image_embedding, top_k) ==
    /\ found = NoResult
    /\ found' = [op |-> "search_multimodal",
                 documents |-> documents,
                 query |-> query,
                 query_embedding |-> query_embedding,
                 image_base64 |-> image_base64,
                 image_embedding |-> image_embedding,
                 top_k |-> top_k,
                 result |-> search_multimodal(query, query_embedding, image_base64,
                                              image_embedding, documents, top_k)]
    /\ UNCHANGED <<products, active_sessions, calls, nextCall, now, outcome,
                   active_connections, ws, searches, documents, text, chunks, tags, storage>>

\* the embeddings cluster_documents hands to KMeans
ValidEmbeddings(docs) ==
    LET valid_docs == SelectSeq(docs, HasEmbedding)
    IN  [i \in 1..Len(valid_docs) |-> valid_docs[i]["embedding"]]

\* a call of cluster_documents on the list; cluster_labels is what KMeans
\* returns when it is reached
CallClusterDocuments(n_clusters, cluster_labels) ==
    /\ found = NoResult
    /\ found' = [op |-> "cluster_documents",
                 documents |-> documents,
                 n_clusters |-> n_clusters,
                 result |-> cluster_documents(documents, n_clusters, cluster_labels)]
    /\ UNCHANGED <<products, active_sessions, calls, nextCall, now, outcome,
                   active_connections, ws, searches, documents, text, chunks, tags, storage>>

NextSearch ==
    \/ \E q \in QueryEmbeddings, k \in 0..MaxTopK : CallSearchSimilar(q, k)
    \/ \E n \in 0..MaxClusters :
       \E labels \in (IF \/ Len(ValidEmbeddings(documents)) < n
                         \/ KMeansRaises(ValidEmbeddings(documents), n)
                      THEN {<<>>}
                      ELSE KMeansLabels(ValidEmbeddings(documents), n)) :
             CallClusterDocuments(n, labels)
    \/ \E query, image_base64 \in BOOLEAN, k \in 0..MaxTopK :
       \E q \in (IF query THEN QueryEmbeddings ELSE {<<>>}),
          im \in (IF image_base64 THEN QueryEmbeddings ELSE {<<>>}) :
             CallSearchMultimodal(query, q, image_base64, im, k)

SpecSearch == InitSearch /\ [][NextSearch]_vars

\* the document dict process_pdf builds for an image: its metadata has
\* neither section nor safety_level
ImageDoc(id, embedding) ==
    [id |-> id, content |-> <<Word("image", FALSE)>>, embedding |-> embedding,
     metadata |-> EmptyDict]

WarningContent == <<Word("warning", TRUE), Word("live", FALSE), Word("parts", FALSE)>>

\* documents of one embedding that differ in section, safety level and
\* content
SafetyCorpus ==
    {TextDoc(0, c, sec, lev, <<1, 0>>) :
         c \in {PlainContent, WarningContent},
         sec \in {"safety", "general"},
         lev \in SafetyLevels}
    \cup {ImageDoc(0, <<1, 0>>)}

InitSafety ==
    /\ InitServices
    /\ \E n \in 0..MaxDocs : documents \in DocLists(SafetyCorpus, n)
    /\ text = NoText

\* a call of find_relevant_sections on the list
CallFindRelevantSections(query_embedding, section_type) ==
    /\ found = NoResult
    /\ found' = [op |-> "find_relevant_sections",
                 documents |-> documents,
                 query_embedding |-> query_embedding,
                 section_type |-> section_type,
                 result |-> find_relevant_sections(query_embedding, documents,
                                                   section_type)]
    /\ UNCHANGED <<products, active_sessions, calls, nextCall, now, outcome,
                   active_connections, ws, searches, documents, text, chunks, tags, storage>>

\* a call of get_safety_related_content on the list
CallGetSafetyRelatedContent ==
    /\ found = NoResult
    /\ found' = [op |-> "get_safety_related_content",
                 documents |-> documents,
                 result |-> get_safety_related_content(documents)]
    /\ UNCHANGED <<products, active_sessions, calls, nextCall, now, outcome,
                   active_connections, ws, searches, documents, text, chunks, tags, storage>>

NextSafety ==
    \/ \E q \in QueryEmbeddings, section_type \in {<<>>, <<"safety">>, <<"general">>} :
           CallFindRelevantSections(q, section_type)
    \/ CallGetSafetyRelatedContent

SpecSafety == InitSafety /\ [][NextSafety]_vars

\* -------------------------------------------------------- PDFProcessor
MaxWords == 1000
MaxTextWords == 2

chunk_size == 500
chunk_overlap == 100

\* text.split(): the words, without the white space
Split(t) == t.words

\* ' '.join(words): a string whose words are these
Join(words) == [words |-> words, blank |-> FALSE]

\* words[i:j] for 0 <= i <= j (Python counts from 0)
Words(words, i, j) == SubSeq(words, i + 1, IF j < Len(words) THEN j ELSE Len(words))

\* range(0, n, step) as the list of its values
Range(n, step) == [k \in 1..((n + step - 1) \div step) |-> (k - 1) * step]

\* _split_text_into_chunks that starts a chunk every chunk_size words
_split_text_without_overlap(t) ==
    LET words == Split(t)
        starts == Range(Len(words), chunk_size)
        chunk(k) == Join(Words(words, starts[k], starts[k] + chunk_size))
        kept == SelectSeq([k \in 1..Len(starts) |-> chunk(k)],
                          LAMBDA c : Split(c) # <<>>)
    IN  [returned |-> TRUE, value |-> kept]

\* _split_text_into_chunks: a chunk of up to chunk_size words every
\* chunk_size - chunk_overlap words; a chunk that is blank is dropped
_split_text_into_chunks(t) ==
    LET words == Split(t)
        starts == Range(Len(words), chunk_size - chunk_overlap)
        chunk(k) == Join(Words(words, starts[k], starts[k] + chunk_size))
        kept == SelectSeq([k \in 1..Len(starts) |-> chunk(k)],
                          LAMBDA c : Split(c) # <<>>)
    IN  [returned |-> TRUE, value |-> kept]

\* any(keyword in text_lower for keyword in keywords)
AnyKeyword(text_lower, keywords) == \E keyword \in keywords : Contains(text_lower, keyword)

SectionSafety == {"safety", "warning", "caution", "danger"}
SectionInstallation == {"installation", "mounting", "assembly"}
SectionWiring == {"wiring", "connection", "terminal"}
SectionTroubleshooting == {"troubleshooting", "problem", "fault"}
SectionSpecifications == {"specification", "technical", "parameter"}

\* _detect_section that tests the wiring keywords first
_detect_section_wiring_first(t) ==
    LET text_lower == Lower(t.words)
    IN  IF AnyKeyword(text_lower, SectionWiring) THEN "wiring"
        ELSE IF AnyKeyword(text_lower, SectionSafety) THEN "safety"
        ELSE IF AnyKeyword(text_lower, SectionInstallation) THEN "installation"
        ELSE IF AnyKeyword(text_lower, SectionTroubleshooting) THEN "troubleshooting"
        ELSE IF AnyKeyword(text_lower, SectionSpecifications) THEN "specifications"
        ELSE "general"

\* _detect_section: the if / elif chain over the lower-cased text
_detect_section(t) ==
    LET text_lower == Lower(t.words)
    IN  IF AnyKeyword(text_lower, SectionSafety) THEN "safety"
        ELSE IF AnyKeyword(text_lower, SectionInstallation) THEN "installation"
        ELSE IF AnyKeyword(text_lower, SectionWiring) THEN "wiring"
        ELSE IF AnyKeyword(text_lower, SectionTroubleshooting) THEN "troubleshooting"
        ELSE IF AnyKeyword(text_lower, SectionSpecifications) THEN "specifications"
        ELSE "general"

LevelCritical == {"danger", "fatal", "death", "electrocution"}
LevelWarning == {"warning", "caution", "risk"}

\* _detect_safety_level: the if / elif chain over the lower-cased text
_detect_safety_level(t) ==
    LET text_lower == Lower(t.words)
    IN  IF AnyKeyword(text_lower, LevelCritical) THEN "critical"
        ELSE IF AnyKeyword(text_lower, LevelWarning) THEN "warning"
        ELSE "info"

\* ----------------------------------------- callers of the PDFProcessor
\* the k-th word of a page of running text, which holds no keyword
Filler(k) == Word(ToString(k), FALSE)

\* a page text of n words, with or without white space around them
Page(n, blank) == [words |-> [k \in 1..n |-> Filler(k)], blank |-> blank]

InitChunk ==
    /\ InitServices
    /\ documents = <<>>
    /\ \E n \in 0..MaxWords, blank \in BOOLEAN : text = Page(n, blank)

\* process_pdf splits the text of a page
CallSplitText ==
    /\ ~chunks.returned
    /\ chunks' = _split_text_into_chunks(text)
    /\ UNCHANGED <<products, active_sessions, calls, nextCall, now, outcome,
                   active_connections, ws, searches, found, documents, text, tags, storage>>

NextChunk == CallSplitText

SpecChunk == InitChunk /\ [][NextChunk]_vars

\* every keyword of a classifier, a word that holds one, and a word
\* that holds none
Vocabulary ==
    SectionSafety \cup SectionInstallation \cup SectionWiring
        \cup SectionTroubleshooting \cup SectionSpecifications
        \cup LevelCritical \cup LevelWarning \cup {"warnings", "arrester"}

\* the chunk texts of n words, each in lower case or in capitals
Snippets(n) ==
    {[words |-> w, blank |-> FALSE] :
         w \in [1..n -> {Word(v, u) : v \in Vocabulary, u \in BOOLEAN}]}

InitTag ==
    /\ InitServices
    /\ documents = <<>>
    /\ \E n \in 0..MaxTextWords : text \in Snippets(n)

\* process_pdf tags a chunk with its section
CallDetectSection ==
    /\ tags' = [tags EXCEPT !.section = _detect_section(text)]
    /\ UNCHANGED <<products, active_sessions, calls, nextCall, now, outcome,
                   active_connections, ws, searches, found, documents, text, chunks, storage>>

\* process_pdf tags a chunk with its safety level
CallDetectSafetyLevel ==
    /\ tags' = [tags EXCEPT !.safety_level = _detect_safety_level(text)]
    /\ UNCHANGED <<products, active_sessions, calls, nextCall, now, outcome,
                   active_connections, ws, searches, found, documents, text, chunks, storage>>

NextTag ==
    \/ CallDetectSection
    \/ CallDetectSafetyLevel

SpecTag == InitTag /\ [][NextTag]_vars

\* ------------------------------------------- readers of the product store
MaxVersions == 2
MaxSearches == 2

\* the top_k the question endpoint passes to search_similar
AskTopK == 5

\* A caller takes the document list of a stored product and calls
\* search_similar with it; the coroutine is suspended in
\* generate_text_embedding, holding the list it was given.
SearchBegin(product_id) ==
    /\ Cardinality(searches) < MaxSearches
    /\ get_product(product_id) # None
    /\ searches' = searches \cup {[documents |-> get_product(product_id).documents,
                                   top_k |-> AskTopK]}
    /\ UNCHANGED <<products, active_sessions, calls, nextCall, now, outcome,
                   active_connections, ws, found, documents, text, chunks, tags, storage>>

\* the embedding call returns and the suspended search_similar runs to
\* its return
SearchReply(search, query_embedding) ==
    /\ search \in searches
    /\ searches' = searches \ {search}
    /\ found' = [op |-> "search_similar",
                 documents |-> search.documents,
                 query_embedding |-> query_embedding,
                 top_k |-> search.top_k,
                 result |-> search_similar(query_embedding, search.documents,
                                           search.top_k)]
    /\ UNCHANGED <<products, active_sessions, calls, nextCall, now, outcome,
                   active_connections, ws, documents, text, chunks, tags, storage>>

\* The product store under ingestion and re-ingestion, with sessions
\* and searches that read it.
NextStore ==
    \/ \E p \in ProductIds, n \in ProductNames, v \in 1..MaxVersions :
           add_product(p, n, Manual(v))
    \/ \E p \in ProductIds : CallCreateSession(p)
    \/ \E p \in ProductIds : SearchBegin(p)
    \/ \E search \in searches, q \in QueryEmbeddings : SearchReply(search, q)

SpecStore == Init /\ [][NextStore]_vars

\* ------------------------------------------------- the REST endpoints
MaxRequests == 2

\* the keys of the "embeddings" dict of a product, in insertion order:
\* what a for loop over the dict yields
EmbeddingsKeys(embeddings) ==
    SelectSeq(<<"text_count", "image_count", "total_count">>,
              LAMBDA key : key \in DOMAIN embeddings)

\* "embedding" in doc for a doc that is a str: the substring test
EmbeddingInKey(key) == key \in {"embedding", "embeddings"}

\* search_similar handed a dict instead of a list of documents, from the
\* reply of the embedding call on.  The loop runs over the keys: a key
\* that contains "embedding" makes doc["embedding"] raise TypeError and
\* the except branch return []; any other key is skipped, and the empty
\* similarities list is sorted and sliced.
search_similar_keys(query_embedding, keys, top_k) ==
    IF query_embedding = <<>>
    THEN <<>>
    ELSE IF \E i \in DOMAIN keys : EmbeddingInKey(keys[i])
    THEN <<>>
    ELSE TopDocuments(<<>>, top_k)

\* the keys ask_question reads from the dict generate_text_response
\* returned
AnswerKeys == {"answer", "sources", "confidence", "safety_warnings"}

\* what the endpoint of a request for an absent product gives the
\* client: the HTTPException(404) is raised inside the try block, caught
\* by except Exception and replaced by HTTPException(500)
NotFoundResponse(op, product_id) ==
    [op |-> op, kind |-> "raised", status_code |-> 500,
     raised_first |-> 404, product_id |-> product_id]

\* ask_question up to the await of the embedding call inside
\* search_similar
AskBegin(product_id) ==
    /\ Cardinality(searches) + Cardinality(calls) < MaxRequests
    /\ IF get_product(product_id) = None
       THEN /\ outcome' = NotFoundResponse("ask_question", product_id)
            /\ searches' = searches
       ELSE /\ searches' = searches \cup
                   {[op |-> "ask_question", product_id |-> product_id,
                     product_data |-> get_product(product_id)]}
            /\ outcome' = outcome
    /\ UNCHANGED <<products, active_sessions, calls, nextCall, now,
                   active_connections, ws, found, documents, text, chunks, tags, storage>>

\* the embedding call returns: search_similar runs to its return over
\* product_data["embeddings"], and generate_text_response builds the
\* prompt from relevant_docs[:5] and awaits the responder
AskEmbedded(ask, query_embedding) ==
    /\ ask \in searches
    /\ searches' = searches \ {ask}
    /\ calls' = calls \cup
           {[op |-> "ask_question", product_id |-> ask.product_id,
             product_data |-> ask.product_data,
             query_embedding |-> query_embedding,
             relevant_docs |->
                 Slice(search_similar_keys(query_embedding,
                           EmbeddingsKeys(ask.product_data["embeddings"]),
                           AskTopK), 5)]}
    /\ UNCHANGED <<products, active_sessions, nextCall, now, outcome,
                   active_connections, ws, found, documents, text, chunks, tags, storage>>

\* the responder replies: generate_text_response returns and
\* ask_question builds the AIResponse from four keys of the dict; a
\* missing key raises KeyError, which becomes HTTPException(500)
AskReply(call, reply) ==
    /\ call \in calls
    /\ call.op = "ask_question"
    /\ calls' = calls \ {call}
    /\ LET response == generate_text_response(reply)
       IN  outcome' =
               [op |-> "ask_question",
                kind |-> IF AnswerKeys \subseteq DOMAIN response
                         THEN "returned" ELSE "raised",
                status_code |-> IF AnswerKeys \subseteq DOMAIN response
                                THEN 200 ELSE 500,
                product_id |-> call.product_id,
                product_data |-> call.product_data,
                query_embedding |-> call.query_embedding,
                relevant_docs |-> call.relevant_docs,
                reply |-> reply,
                response |-> response]
    /\ UNCHANGED <<products, active_sessions, nextCall, now, searches,
                   active_connections, ws, found, documents, text, chunks, tags, storage>>

\* the dict detect_objects_in_image returns, as its overall_status, the
\* number of components and the confidence: the except branch's, the
\* fallback's for a reply that is not JSON, or the parsed reply's
detect_objects_in_image(reply) ==
    CASE reply = "text" ->
             [overall_status |-> "incomplete", detected_components |-> 3,
              confidence |-> Tenths(5)]
      [] reply = "json" ->
             [overall_status |-> "complete", detected_components |-> 1,
              confidence |-> Tenths(9)]
      [] OTHER ->
             [overall_status |-> "error", detected_components |-> 0,
              confidence |-> Tenths(0)]

\* detect_objects up to the await of the responder inside
\* detect_objects_in_image
DetectBegin(product_id) ==
    /\ Cardinality(searches) + Cardinality(calls) < MaxRequests
    /\ IF get_product(product_id) = None
       THEN /\ outcome' = NotFoundResponse("detect_objects", product_id)
            /\ calls' = calls
       ELSE /\ calls' = calls \cup
                   {[op |-> "detect_objects", product_id |-> product_id]}
            /\ outcome' = outcome
    /\ UNCHANGED <<products, active_sessions, nextCall, now, searches,
                   active_connections, ws, found, documents, text, chunks, tags, storage>>

\* the responder replies and detect_objects returns the result
DetectReply(call, reply) ==
    /\ call \in calls
    /\ call.op = "detect_objects"
    /\ calls' = calls \ {call}
    /\ outcome' = [op |-> "detect_objects", kind |-> "returned",
                   status_code |-> 200, product_id |-> call.product_id,
                   data |-> detect_objects_in_image(reply)]
    /\ UNCHANGED <<products, active_sessions, nextCall, now, searches,
                   active_connections, ws, found, documents, text, chunks, tags, storage>>

\* the product store under ingestion with the two query endpoints
NextAsk ==
    \/ \E p \in ProductIds, n \in ProductNames, v \in 1..MaxVersions :
           add_product(p, n, Manual(v))
    \/ \E p \in 1..(MaxProducts + 1) : AskBegin(p)
    \/ \E ask \in searches, q \in QueryEmbeddings : AskEmbedded(ask, q)
    \/ \E call \in calls, reply \in TextReplies : AskReply(call, reply)
    \/ \E p \in 1..(MaxProducts + 1) : DetectBegin(p)
    \/ \E call \in calls, reply \in TextReplies : DetectReply(call, reply)

SpecAsk == Init /\ [][NextAsk]_vars

\* ----------------------------------------------------- batch ingestion
MaxBatch == 3

\* A pdf_path names the file of an edition of the manual, or, as 0, a
\* file fitz.open cannot read: process_pdf logs the error and re-raises.
Readable(pdf_path) == pdf_path # 0

\* what process_pdf returns for a readable file
process_pdf(pdf_path) == Manual(pdf_path)

\* _save_processed_data: before it returns, process_pdf writes a summary
\* and the documents into the directory of the product
_save_processed_data(files, data, product_id) ==
    DictSet(files, product_id,
            [processed_data |-> [product_id |-> product_id,
                                 product_name |-> data.product_name,
                                 total_pages |-> data.total_pages,
                                 embeddings |-> data.embeddings,
                                 document_count |-> Len(data.documents)],
             documents |-> data.documents])

\* the items a batch can hold
PdfInfos ==
    [pdf_path : 0..MaxVersions, product_id : ProductIds, product_name : ProductNames]

PdfLists(n) == [1..n -> PdfInfos]

\* batch_process_pdfs: the loop over the list; an item whose process_pdf
\* raises gets an error entry and the loop goes on
batch_process_pdfs(pdf_list) ==
    [i \in 1..Len(pdf_list) |->
        IF Readable(pdf_list[i].pdf_path)
        THEN [product_id |-> pdf_list[i].product_id, status |-> "success",
              result |-> process_pdf(pdf_list[i].pdf_path)]
        ELSE [product_id |-> pdf_list[i].product_id, status |-> "error"]]

RECURSIVE batch_process_saves(_, _)

\* the files the process_pdf calls of batch_process_pdfs leave behind
batch_process_saves(files, pdf_list) ==
    IF pdf_list = <<>>
    THEN files
    ELSE LET pdf_info == Head(pdf_list)
         IN  batch_process_saves(
                 IF Readable(pdf_info.pdf_path)
                 THEN _save_processed_data(files, process_pdf(pdf_info.pdf_path),
                                           pdf_info.product_id)
                 ELSE files,
                 Tail(pdf_list))

RECURSIVE batch_upload_aborting(_, _)
RECURSIVE batch_upload_loop(_, _)

\* a loop of batch_upload_pdfs that gives up at the first item that
\* fails
batch_upload_aborting(done, pdf_list) ==
    IF pdf_list = <<>>
    THEN done
    ELSE LET product == Head(pdf_list)
         IN  IF Readable(product.pdf_path)
             THEN batch_upload_aborting(
                      [products |-> DictSet(done.products, product.product_id,
                                        ProductDict(product.product_id,
                                                    product.product_name,
                                                    process_pdf(product.pdf_path))),
                       storage |-> _save_product(
                                       _save_processed_data(done.storage,
                                           process_pdf(product.pdf_path),
                                           product.product_id),
                                       product.product_id,
                                       process_pdf(product.pdf_path)),
                       results |-> Append(done.results,
                                      [product_id |-> product.product_id,
                                       status |-> "success",
                                       pages_processed |->
                                           process_pdf(product.pdf_path).total_pages])],
                      Tail(pdf_list))
             ELSE [products |-> done.products,
                   storage |-> done.storage,
                   results |-> Append(done.results,
                                  [product_id |-> product.product_id,
                                   status |-> "error"])]

\* the loop of batch_upload_pdfs from the state done = [products,
\* storage, results] over the rest of the list: process_pdf, then add_product,
\* then a success entry; an item whose process_pdf raises skips
\* add_product and gets an error entry
batch_upload_loop(done, pdf_list) ==
    IF pdf_list = <<>>
    THEN done
    ELSE LET product == Head(pdf_list)
         IN  IF Readable(product.pdf_path)
             THEN batch_upload_loop(
                      [products |-> DictSet(done.products, product.product_id,
                                        ProductDict(product.product_id,
                                                    product.product_name,
                                                    process_pdf(product.pdf_path))),
                       storage |-> _save_product(
                                       _save_processed_data(done.storage,
                                           process_pdf(product.pdf_path),
                                           product.product_id),
                                       product.product_id,
                                       process_pdf(product.pdf_path)),
                       results |-> Append(done.results,
                                      [product_id |-> product.product_id,
                                       status |-> "success",
                                       pages_processed |->
                                           process_pdf(product.pdf_path).total_pages])],
                      Tail(pdf_list))
             ELSE batch_upload_loop(
                      [products |-> done.products,
                       storage |-> done.storage,
                       results |-> Append(done.results,
                                      [product_id |-> product.product_id,
                                       status |-> "error"])],
                      Tail(pdf_list))

\* a call of batch_process_pdfs; no step of it suspends
CallBatchProcessPdfs(pdf_list) ==
    /\ outcome = NoOutcome
    /\ outcome' = [op |-> "batch_process_pdfs", kind |-> "returned",
                   pdf_list |-> pdf_list,
                   results |-> batch_process_pdfs(pdf_list)]
    /\ storage' = batch_process_saves(storage, pdf_list)
    /\ UNCHANGED <<products, active_sessions, calls, nextCall, now,
                   active_connections, ws, svars>>

\* the batch-upload endpoint; no step of it suspends
batch_upload_pdfs(pdf_list) ==
    /\ outcome = NoOutcome
    /\ LET done == batch_upload_loop([products |-> products, storage |-> storage,
                                      results |-> <<>>], pdf_list)
       IN  /\ products' = done.products
           /\ storage' = done.storage
           /\ outcome' = [op |-> "batch_upload_pdfs", kind |-> "returned",
                          pdf_list |-> pdf_list,
                          results |-> done.results]
    /\ UNCHANGED <<active_sessions, calls, nextCall, now,
                   active_connections, ws, svars>>

\* the store under single and batch ingestion; each behaviour makes one
\* batch call
NextBatch ==
    \/ \E p \in ProductIds, n \in ProductNames, v \in 1..MaxVersions :
           add_product(p, n, Manual(v))
    \/ \E n \in 0..MaxBatch : \E pdf_list \in PdfLists(n) :
           CallBatchProcessPdfs(pdf_list)
    \/ \E n \in 0..MaxBatch : \E pdf_list \in PdfLists(n) :
           batch_upload_pdfs(pdf_list)

SpecBatch == Init /\ [][NextBatch]_vars

\* ------------------------------------------------ audio over a handbook
\* What process_pdf returns for a manual of six text chunks: the first
\* five share one embedding, the sixth has another.
Handbook ==
    [product_name |-> "DEHNventil",
     total_pages |-> 3,
     documents |->
        [i \in 1..6 |->
            TextDoc(i, PlainContent, "general", "info",
                    IF i = 6 THEN <<1, 0>> ELSE <<-1, 1>>)],
     embeddings |-> [text_count |-> 6, image_count |-> 0, total_count |-> 6]]

\* sessions on the handbook that take audio only
NextAudio ==
    \/ \E p \in ProductIds, n \in ProductNames : add_product(p, n, Handbook)
    \/ \E p \in ProductIds : CallCreateSession(p)
    \/ \E s \in SessionIds : CallProcessAudio(s)
    \/ \E s \in SessionIds : CallEndSession(s)
    \/ \E call \in calls, reply \in TextReplies : AudioReply(call, reply)
    \/ Tick

SpecAudio == Init /\ [][NextAudio]_vars

\* ---------------------------------------------------------- persistence
MaxNesting == 3

\* dict.update(other)
DictUpdate(d, other) ==
    [k \in (DOMAIN d) \cup (DOMAIN other) |->
        IF k \in DOMAIN other THEN other[k] ELSE d[k]]

\* _load_product: the dict built from processed_data.json and
\* documents.json; str(product_id) stands for the id where it is used
\* as a name
_load_product(product_id) ==
    LET metadata == storage[product_id].processed_data
    IN  [none |-> FALSE, id |-> product_id,
         name |-> IF "product_name" \in DOMAIN metadata
                  THEN metadata["product_name"] ELSE ToString(product_id),
         total_pages |-> IF "total_pages" \in DOMAIN metadata
                         THEN metadata["total_pages"] ELSE 0,
         documents |-> storage[product_id].documents,
         embeddings |-> IF "embeddings" \in DOMAIN metadata
                        THEN metadata["embeddings"] ELSE EmptyDict,
         metadata |-> metadata]

\* what load_all_products leaves in the products dict of a new
\* ProductManager: one entry for every directory of the data directory
load_all_products == [p \in DOMAIN storage |-> _load_product(p)]

\* the process is started again: startup_event loads the products into
\* a new ProductManager
Restart ==
    /\ products' = load_all_products
    /\ UNCHANGED <<active_sessions, calls, nextCall, now, outcome,
                   active_connections, ws, svars, storage>>

\* delete_product: the entry and the directory of a stored product
\* are removed
delete_product(product_id) ==
    /\ IF product_id \in DOMAIN products
       THEN /\ products' = DictDel(products, product_id)
            /\ storage' = DictDel(storage, product_id)
       ELSE UNCHANGED <<products, storage>>
    /\ UNCHANGED <<active_sessions, calls, nextCall, now, outcome,
                   active_connections, ws, svars>>

\* how deep "metadata" dicts are nested in a dict
RECURSIVE Nesting(_)
Nesting(d) ==
    IF "metadata" \in DOMAIN d THEN 1 + Nesting(d["metadata"]) ELSE 0

\* the dicts update_product_metadata is called with
MetadataUpdates == {[reviewed |-> TRUE], [product_name |-> "DEHNguard"]}

\* update_product_metadata: the dict under "metadata" is updated in
\* place, then _save_product is handed the product dict itself, not the
\* processed data.  No session holds the product dict where this is used.
update_product_metadata(product_id, metadata) ==
    /\ IF product_id \in DOMAIN products
       THEN LET updated == [products[product_id] EXCEPT
                                !.metadata = DictUpdate(@, metadata)]
            IN  /\ products' = [products EXCEPT ![product_id] = updated]
                /\ storage' = _save_product(storage, product_id, updated)
       ELSE UNCHANGED <<products, storage>>
    /\ UNCHANGED <<active_sessions, calls, nextCall, now, outcome,
                   active_connections, ws, svars>>

\* the product store under its three writers and restarts
NextPersist ==
    \/ \E p \in ProductIds, n \in ProductNames, v \in 1..MaxVersions :
           add_product(p, n, Manual(v))
    \/ \E p \in 1..(MaxProducts + 1) : delete_product(p)
    \/ \E p \in 1..(MaxProducts + 1), metadata \in MetadataUpdates :
           /\ p \in DOMAIN products => Nesting(products[p].metadata) < MaxNesting
           /\ update_product_metadata(p, metadata)
    \/ Restart

SpecPersist == Init /\ [][NextPersist]_vars

\* ------------------------------------------------------------ claims
ProcessOps == {"process_video_frame", "process_audio"}

History(s) == active_sessions[s].conversation_history

Progress(s) == active_sessions[s].installation_progress

\* C1: a process_video_frame or process_audio call on a session that
\* end_session has set to ended fails with an error raised to the caller
\* and never reaches the analysis pipeline (the await of the responder).
C1_EndedSessionRejectsCalls ==
    /\ \A call \in calls : call.before # "ended"
    /\ (outcome.op \in ProcessOps /\ outcome.before = "ended")
           => outcome.kind = "raised"

\* C2: once the completed flag of a step's progress entry is true, it is
\* true after every later step of the system.
C2_ProgressMonotonic ==
    [][\A s \in DOMAIN active_sessions : \A k \in DOMAIN Progress(s) :
          Progress(s)[k].completed =>
              /\ s \in DOMAIN active_sessions'
              /\ k \in DOMAIN active_sessions'[s].installation_progress
              /\ active_sessions'[s].installation_progress[k].completed]_vars

\* C3: process_video_frame, process_audio and end_session called with a
\* session id that is not in the store all raise an error to the caller.
C3_UnknownSessionRaises ==
    (outcome.op \in ProcessOps \cup {"end_session"} /\ outcome.before = "unknown")
        => outcome.kind = "raised"

\* C4: end_session on a session that is already ended returns normally
\* and leaves the session's status ended.
C4_EndSessionIdempotent ==
    [][\A s \in SessionIds :
          (StatusOf(s) = "ended" /\ CallEndSession(s))
              => /\ outcome'.kind = "returned"
                 /\ active_sessions'[s].status = "ended"]_vars

\* a second end_session on an ended session has returned
C4_Witness ==
    /\ outcome.op = "end_session"
    /\ outcome.before = "ended"

\* C5: end_session on a session that is already ended changes no field of
\* the session; the end timestamp of the first call stays.
C5_EndSessionNoOpWhenEnded ==
    [][\A s \in SessionIds :
          (StatusOf(s) = "ended" /\ CallEndSession(s))
              => active_sessions'[s] = active_sessions[s]]_vars

\* a session has taken a frame turn and an audio turn, has a progress
\* entry, and was ended
AllOperationsActed ==
    \E s \in DOMAIN active_sessions :
        /\ active_sessions[s].status = "ended"
        /\ DOMAIN Progress(s) # {}
        /\ \E i, j \in 1..Len(History(s)) :
               History(s)[i].frame_analyzed /\ ~History(s)[j].frame_analyzed

\* C6: every session's current_step is at least 1, and no step of the
\* system lowers it.
C6_CurrentStepMonotone ==
    /\ [](\A s \in DOMAIN active_sessions : active_sessions[s].current_step >= 1)
    /\ [][\A s \in DOMAIN active_sessions :
             /\ s \in DOMAIN active_sessions'
             /\ active_sessions'[s].current_step >= active_sessions[s].current_step]_vars

C6_Witness == AllOperationsActed /\ outcome.op = "end_session"

IsPrefix(a, b) == Len(a) <= Len(b) /\ SubSeq(b, 1, Len(a)) = a

\* C7: in every step each session's previous history is a prefix of its
\* new history, which is at most one turn longer; a process_video_frame or
\* process_audio call that returns a result appends exactly one turn, its
\* own, at the end.
C7_HistoryAppendOnly ==
    [][/\ \A s \in DOMAIN active_sessions :
             /\ s \in DOMAIN active_sessions'
             /\ IsPrefix(History(s), active_sessions'[s].conversation_history)
             /\ Len(active_sessions'[s].conversation_history) <= Len(History(s)) + 1
       /\ \A call \in calls :
             (call \notin calls' /\ outcome'.kind = "returned")
                 => LET h == active_sessions'[call.sid].conversation_history
                    IN  /\ Len(h) = Len(History(call.sid)) + 1
                        /\ h[Len(h)].call = call.id
                        /\ h[Len(h)].frame_analyzed = (call.op = "process_video_frame")
      ]_vars

\* a call has returned a result on a session that already had a turn
C7_Witness ==
    /\ outcome.op \in ProcessOps
    /\ outcome.kind = "returned"
    /\ \E s \in DOMAIN active_sessions :
           /\ Len(History(s)) >= 2
           /\ \E i, j \in 1..Len(History(s)) :
                  History(s)[i].frame_analyzed /\ ~History(s)[j].frame_analyzed

\* C8: a create_session call for a present product registers, under an id
\* that was not in the store, a session that is active, has an empty
\* history, an empty progress map and current_step 1 and is bound to that
\* product; every session that existed keeps its id and all its fields.
C8_CreateSessionFresh ==
    /\ [](\A s \in DOMAIN active_sessions : active_sessions[s].id = s)
    /\ [][\A p \in ProductIds :
             (get_product(p) # None /\ CallCreateSession(p))
                 => \E sid \in SessionIds :
                        /\ sid \notin DOMAIN active_sessions
                        /\ DOMAIN active_sessions' = DOMAIN active_sessions \cup {sid}
                        /\ active_sessions'[sid].status = "active"
                        /\ active_sessions'[sid].conversation_history = <<>>
                        /\ DOMAIN active_sessions'[sid].installation_progress = {}
                        /\ active_sessions'[sid].current_step = 1
                        /\ active_sessions'[sid].product_id = p
                        /\ active_sessions'[sid].product_context = products[p]
                        /\ \A o \in DOMAIN active_sessions :
                               active_sessions'[o] = active_sessions[o]]_vars

\* a session was created beside one that already has a turn
C8_Witness ==
    /\ outcome.op = "create_session"
    /\ outcome.kind = "returned"
    /\ \E s, t \in DOMAIN active_sessions :
           /\ Len(History(s)) > 0
           /\ active_sessions[t].status = "active"
           /\ History(t) = <<>>

C10_TurnsInStartOrder ==
    \A s \in DOMAIN active_sessions :
        \A i, j \in 1..Len(History(s)) :
            i < j => History(s)[i].call < History(s)[j].call

\* C11: a process_video_frame call that hands back the error result
\* (responder failure, malformed analysis reply, failure while updating
\* the progress) leaves the session's record, and so its history and
\* progress, exactly as it was before the call resumed.
C11_FailedFrameLeavesSession ==
    [][\A call \in calls :
          (/\ call.op = "process_video_frame"
           /\ call \notin calls'
           /\ outcome'.kind = "error_result")
              => /\ active_sessions'[call.sid].conversation_history = History(call.sid)
                 /\ active_sessions'[call.sid].installation_progress = Progress(call.sid)
      ]_vars

\* C13: a process_video_frame, process_audio or end_session step on one
\* session leaves the status, history, current_step and progress of
\* every other session as they were, also when both sessions are bound
\* to the same product.
C13_SessionsIndependent ==
    [][LET Same(b) ==
               /\ b \in DOMAIN active_sessions'
               /\ active_sessions'[b].status = active_sessions[b].status
               /\ active_sessions'[b].conversation_history = History(b)
               /\ active_sessions'[b].current_step = active_sessions[b].current_step
               /\ active_sessions'[b].installation_progress = Progress(b)
       IN  /\ \A call \in calls :
                 call \notin calls'
                     => \A b \in DOMAIN active_sessions \ {call.sid} : Same(b)
           /\ \A a \in SessionIds :
                 (\/ CallEndSession(a)
                  \/ \E au \in BOOLEAN : CallProcessVideoFrame(a, au)
                  \/ CallProcessAudio(a))
                     => \A b \in DOMAIN active_sessions \ {a} : Same(b)
      ]_vars

\* a frame call, an audio call and end_session have acted on one session
\* while another session bound to the same product holds a turn and is
\* still active
C13_Witness ==
    \E a, b \in DOMAIN active_sessions :
        /\ a # b
        /\ active_sessions[a].product_id = active_sessions[b].product_id
        /\ active_sessions[a].status = "ended"
        /\ Len(History(a)) > 0
        /\ DOMAIN Progress(a) # {}
        /\ active_sessions[b].status = "active"
        /\ Len(History(b)) > 0

\* the documents of a list that carry a non-empty embedding
Embedded(docs) == {i \in 1..Len(docs) : HasEmbedding(docs[i])}

\* the similarity search_similar gives a document for a query embedding
SimTo(embedding, doc) == _cosine_similarity(embedding, doc["embedding"])

\* C14: search_similar returns at most top_k documents of the list, all
\* with a non-empty embedding, in descending order of cosine similarity
\* to the query, documents of equal similarity in their order in the
\* list; they are the best-ranked ones, so the sequence is fixed by the
\* query embedding and the list, and a repeated call returns it again.
C14_SearchSimilarRanked ==
    found.op = "search_similar" =>
        LET r == found.result
            q == found.query_embedding
            docs == found.documents
            ids == {r[i].id : i \in 1..Len(r)}
        IN  /\ Len(r) <= found.top_k
            /\ \A i \in 1..Len(r) :
                  /\ r[i].id \in Embedded(docs)
                  /\ r[i] = docs[r[i].id]
                  /\ r[i].embedding # <<>>
            /\ \A i, j \in 1..Len(r) :
                  i < j =>
                      /\ ~SimGreater(SimTo(q, r[j]), SimTo(q, r[i]))
                      /\ SimEqual(SimTo(q, r[i]), SimTo(q, r[j])) => r[i].id < r[j].id
            /\ \A d \in Embedded(docs) \ ids :
                  /\ q # <<>> => Len(r) = found.top_k
                  /\ \A i \in 1..Len(r) :
                        /\ ~SimGreater(SimTo(q, docs[d]), SimTo(q, r[i]))
                        /\ SimEqual(SimTo(q, docs[d]), SimTo(q, r[i])) => r[i].id < d

\* a search with top_k 2 has returned two documents of equal similarity
\* in list order and has cut off the first document of the list, which
\* is less similar
C14_Witness ==
    /\ found.op = "search_similar"
    /\ found.top_k = 2
    /\ Len(found.result) = 2
    /\ found.result[1].id = 2
    /\ found.result[2].id = 3
    /\ SimEqual(SimTo(found.query_embedding, found.result[1]),
                SimTo(found.query_embedding, found.result[2]))
    /\ HasEmbedding(found.documents[1])

\* the first occurrences of each id in a list, in list order
KeepFirst(list) ==
    LET first(i) == \A j \in 1..(i - 1) : list[j].id # list[i].id
        kept == {i \in 1..Len(list) : first(i)}
        nth(n) == CHOOSE i \in kept : Cardinality({j \in kept : j <= i}) = n
    IN  [n \in 1..Cardinality(kept) |-> list[nth(n)]]

\* C15: search_multimodal with a text and an image query returns at most
\* top_k documents with pairwise distinct ids: the first top_k of the
\* text results followed by the image results, later occurrences of an
\* id dropped; a result found by the text search stands before every
\* result found by the image search only.
C15_MultimodalFusion ==
    (found.op = "search_multimodal" /\ found.query /\ found.image_base64) =>
        LET r == found.result
            text_results == search_similar(found.query_embedding, found.documents,
                                           found.top_k)
            image_results == search_similar(found.image_embedding, found.documents,
                                            found.top_k)
            text_ids == {text_results[i].id : i \in 1..Len(text_results)}
        IN  /\ Len(r) <= found.top_k
            /\ \A i, j \in 1..Len(r) : i # j => r[i].id # r[j].id
            /\ r = Slice(KeepFirst(text_results \o image_results), found.top_k)
            /\ \A i, j \in 1..Len(r) :
                  (r[i].id \in text_ids /\ r[j].id \notin text_ids) => i < j

\* both searches found documents, some of them the same ones, and the
\* fused result holds two documents
C15_Witness ==
    /\ found.op = "search_multimodal"
    /\ found.query /\ found.image_base64
    /\ found.query_embedding # <<>> /\ found.image_embedding # <<>>
    /\ found.query_embedding # found.image_embedding
    /\ Len(found.result) = 2
    /\ found.top_k = 3
    /\ found.result[1] # search_similar(found.image_embedding, found.documents,
                                        found.top_k)[1]

\* C17: _cosine_similarity is exactly 0.0 when a vector is empty or the
\* two lengths differ, so a list that holds such embeddings is searched
\* without error: a document whose embedding has another length than the
\* query's is ranked with similarity 0.0, one without embedding is left
\* out.
C17_CosineZeroOnBadVectors ==
    found.op = "search_similar" =>
        LET q == found.query_embedding
            docs == found.documents
            r == found.result
        IN  /\ \A i \in 1..Len(docs) :
                  (q = <<>> \/ docs[i].embedding = <<>>
                            \/ Len(q) # Len(docs[i].embedding))
                      => /\ _cosine_similarity(q, docs[i].embedding) = Zero
                         /\ _cosine_similarity(docs[i].embedding, q) = Zero
            /\ q # <<>> =>
                  /\ Len(r) = IF found.top_k < Cardinality(Embedded(docs))
                              THEN found.top_k ELSE Cardinality(Embedded(docs))
                  /\ \A i, j \in 1..Len(r) :
                        Len(r[i].embedding) # Len(q) =>
                            /\ SimGreater(SimTo(q, r[j]), Zero) => j < i
                            /\ SimGreater(Zero, SimTo(q, r[j])) => i < j

\* a search over a list with an embedding of another length and an empty
\* one has returned the document of the odd length
C17_Witness ==
    /\ found.op = "search_similar"
    /\ found.query_embedding # <<>>
    /\ \E i \in 1..Len(found.documents) : found.documents[i].embedding = <<>>
    /\ \E i \in 1..Len(found.result) :
           /\ Len(found.result[i].embedding) # Len(found.query_embedding)
           /\ i > 1

\* C16: the result of a search for a safety-sensitive query is ordered
\* by safety priority, highest first, and by similarity among documents
\* of one priority (the search takes no such flag, so this is asked of
\* every search): chunks [Info, Critical, Warning] of equal similarity
\* come back as [Critical, Warning, Info].
C16_SafetyPriorityOrder ==
    found.op = "find_relevant_sections" =>
        LET r == found.result
            q == found.query_embedding
        IN  \A i, j \in 1..Len(r) :
               i < j =>
                   \/ safety_priority(r[i]) > safety_priority(r[j])
                   \/ /\ safety_priority(r[i]) = safety_priority(r[j])
                      /\ ~SimGreater(SimTo(q, r[j]), SimTo(q, r[i]))

\* C20: get_safety_related_content returns exactly the documents whose
\* section is safety, or whose safety level is warning or critical, or
\* whose content holds a safety keyword in any case, each once, sorted by
\* safety priority (critical 3, warning 2, info 1) highest first, and
\* documents of equal priority in their order in the list.
C20_SafetyContentSorted ==
    found.op = "get_safety_related_content" =>
        LET r == found.result
            docs == found.documents
            level(d) == IF "safety_level" \in DOMAIN d.metadata
                        THEN d.metadata["safety_level"] ELSE "absent"
            related == {i \in 1..Len(docs) :
                           \/ /\ "section" \in DOMAIN docs[i].metadata
                              /\ docs[i].metadata["section"] = "safety"
                           \/ level(docs[i]) \in {"warning", "critical"}
                           \/ \E k \in 1..Len(docs[i].content) :
                                  docs[i].content[k].word \in
                                      {"safety", "warning", "caution", "danger"}}
        IN  /\ Len(r) = Cardinality(related)
            /\ {r[i].id : i \in 1..Len(r)} = related
            /\ \A i \in 1..Len(r) :
                  /\ r[i] = docs[r[i].id]
                  /\ level(r[i]) = "critical" => safety_priority(r[i]) = 3
                  /\ level(r[i]) = "warning" => safety_priority(r[i]) = 2
                  /\ level(r[i]) = "info" => safety_priority(r[i]) = 1
            /\ \A i, j \in 1..Len(r) :
                  i < j =>
                      /\ safety_priority(r[i]) >= safety_priority(r[j])
                      /\ safety_priority(r[i]) = safety_priority(r[j])
                             => r[i].id < r[j].id

\* the list's last document, a critical one, was moved to the front of
\* two documents of equal priority that kept their order, the first of
\* them safety-related by a keyword in capitals only
C20_Witness ==
    /\ found.op = "get_safety_related_content"
    /\ Len(found.result) = 3
    /\ found.result[1].id = 3
    /\ found.result[2].id = 1
    /\ found.result[3].id = 2
    /\ safety_priority(found.result[2]) = safety_priority(found.result[3])
    /\ found.result[2].content = WarningContent
    /\ found.result[2].metadata = [section |-> "general", safety_level |-> "info"]

\* C18: for a text of L words, _split_text_into_chunks returns chunks of
\* 1 to 500 words, chunk i (counted from 0) being the words from position
\* 400*i on; every position 0..L-1 lies in a chunk; two consecutive
\* chunks share exactly 100 words, unless the second is the last chunk
\* and is shorter than 500 words; a text without words gives no chunk.
C18_ChunksCoverWithOverlap ==
    chunks.returned =>
        LET words == text.words
            L == Len(words)
            c == chunks.value
            n == Len(c)
            start(i) == 400 * (i - 1)
            end(i) == start(i) + Len(c[i].words)
            shared(i) == IF end(i) < end(i + 1)
                         THEN end(i) - start(i + 1)
                         ELSE end(i + 1) - start(i + 1)
        IN  /\ \A i \in 1..n :
                  /\ Len(c[i].words) \in 1..500
                  /\ end(i) <= L
                  /\ \A k \in 1..Len(c[i].words) : c[i].words[k] = words[start(i) + k]
            /\ \A pos \in 1..L : \E i \in 1..n : start(i) < pos /\ pos <= end(i)
            /\ \A i \in 1..(n - 1) :
                  (i + 1 < n \/ Len(c[n].words) = 500) => shared(i) = 100
            /\ L = 0 => n = 0

\* a text with white space around it was split into three chunks, the
\* second shorter than 500 words and the last shorter than the overlap
C18_Witness ==
    /\ chunks.returned
    /\ text.blank
    /\ Len(chunks.value) = 3
    /\ Len(chunks.value[2].words) < 500
    /\ Len(chunks.value[3].words) < 100

\* some word of the text, in any case, holds a keyword of the set
Mentions(t, keywords) ==
    \E i \in 1..Len(t.words), keyword \in keywords : Occurs(keyword, t.words[i].word)

\* C19: _detect_section returns the first of safety, installation,
\* wiring, troubleshooting, specifications that has a keyword in the
\* text, whatever its case, and general if none has; _detect_safety_level
\* returns critical if a critical keyword is in the text, else warning if
\* a warning keyword is, else info.
C19_ClassifierPriority ==
    /\ tags.section # "none" =>
          LET order == <<"safety", "installation", "wiring", "troubleshooting",
                         "specifications">>
              keys == <<{"safety", "warning", "caution", "danger"},
                        {"installation", "mounting", "assembly"},
                        {"wiring", "connection", "terminal"},
                        {"troubleshooting", "problem", "fault"},
                        {"specification", "technical", "parameter"}>>
              hits == {k \in 1..5 : Mentions(text, keys[k])}
          IN  /\ hits = {} => tags.section = "general"
              /\ \A k \in hits : (\A h \in hits : k <= h) => tags.section = order[k]
    /\ tags.safety_level # "none" =>
          LET critical == Mentions(text, {"danger", "fatal", "death", "electrocution"})
              warning == Mentions(text, {"warning", "caution", "risk"})
          IN  tags.safety_level = IF critical THEN "critical"
                                  ELSE IF warning THEN "warning" ELSE "info"

\* a text with a wiring keyword and, in capitals, a keyword that is both
\* a safety-section and a critical-level keyword was tagged
C19_Witness ==
    /\ tags.section = "safety"
    /\ tags.safety_level = "critical"
    /\ Len(text.words) = 2
    /\ text.words[1] = Word("terminal", FALSE)
    /\ text.words[2] = Word("danger", TRUE)

\* the documents of the list come from two editions
Mixed(docs) ==
    \E i, j \in 1..Len(docs) : docs[i].content[2] # docs[j].content[2]

\* C12: add_product for a stored id replaces the whole entry in one
\* step and touches no reader: a suspended search keeps the list it
\* took and returns documents of that list only, a session keeps the
\* product dict it was created with, get_product returns the new
\* documents only, and no list a reader holds mixes two editions.
C12_ReingestReplacesWholesale ==
    /\ [](/\ \A p \in DOMAIN products : ~Mixed(get_product(p).documents)
          /\ \A search \in searches : ~Mixed(search.documents)
          /\ \A s \in DOMAIN active_sessions :
                ~Mixed(active_sessions[s].product_context.documents)
          /\ ~Mixed(found.result))
    /\ [][/\ \A p \in ProductIds, v \in 1..MaxVersions :
                (\E n \in ProductNames : add_product(p, n, Manual(v)))
                    => /\ products'[p].documents = Manual(v).documents
                       /\ products'[p].total_pages = Manual(v).total_pages
                       /\ searches' = searches
                       /\ active_sessions' = active_sessions
          /\ \A search \in searches :
                \/ search \in searches'
                \/ /\ found'.documents = search.documents
                   /\ \A i \in 1..Len(found'.result) :
                         \E k \in 1..Len(search.documents) :
                             found'.result[i] = search.documents[k]
         ]_vars

\* a search that took the documents of one edition has returned them
\* after the product was re-ingested, beside a session created before
\* the re-ingestion
C12_Witness ==
    /\ found.op = "search_similar"
    /\ Len(found.result) = 2
    /\ \E p \in DOMAIN products :
           /\ products[p].documents # found.documents
           /\ \E s \in DOMAIN active_sessions :
                  /\ active_sessions[s].product_id = p
                  /\ active_sessions[s].product_context # products[p]

\* C21: cluster_documents on a list with fewer embedded documents than
\* n_clusters returns one cluster, cluster_0, that holds exactly the
\* embedded documents of the list, in list order.
C21_FewDocumentsOneCluster ==
    (found.op = "cluster_documents"
     /\ Cardinality(Embedded(found.documents)) < found.n_clusters) =>
        /\ DOMAIN found.result = {0}
        /\ found.result[0] = SelectSeq(found.documents, HasEmbedding)

\* three documents of which two are embedded, asked for three clusters
C21_Witness ==
    /\ found.op = "cluster_documents"
    /\ found.n_clusters = 3
    /\ Len(found.documents) = 3
    /\ Cardinality(Embedded(found.documents)) = 2
    /\ DOMAIN found.result = {0}
    /\ Len(found.result[0]) = 2

\* C22: when the responder's reply cannot be parsed as the structured
\* answer (free text, or JSON that is not the expected object),
\* generate_text_response returns the fixed fallback dict around the raw
\* reply text.
C22_UnparseableReplyFallsBack ==
    (outcome.op = "ask_question" /\ "reply" \in DOMAIN outcome
     /\ outcome.reply \in {"text", "json_no_answer"}) =>
        \E response_text \in {"raw reply text"} :
            outcome.response = Fallback(response_text)

\* C23: an ask or detect request for a product id that is not in the
\* store is answered with status 404, not with 500.
C23_AbsentProductIs404 ==
    (outcome.op \in {"ask_question", "detect_objects"}
     /\ outcome.kind = "raised"
     /\ "raised_first" \in DOMAIN outcome) =>
        outcome.status_code = 404

\* C24: an ask request for a stored product always returns a result
\* with answer, sources, confidence and safety_warnings, whatever the
\* embedding call and the responder give.
C24_AskAlwaysStructured ==
    (outcome.op = "ask_question" /\ "response" \in DOMAIN outcome) =>
        /\ outcome.kind = "returned"
        /\ AnswerKeys \subseteq DOMAIN outcome.response

\* C27: with an available query embedding, ask hands the responder the
\* up-to-5 best-ranked chunks of the product in ranked order, and at
\* least one when the product has an embedded chunk.
C27_AskRanksProductChunks ==
    (outcome.op = "ask_question" /\ "response" \in DOMAIN outcome
     /\ outcome.query_embedding # <<>>) =>
        /\ outcome.relevant_docs =
               search_similar(outcome.query_embedding,
                              outcome.product_data["documents"], AskTopK)
        /\ Embedded(outcome.product_data["documents"]) # {}
               => outcome.relevant_docs # <<>>

\* the items of the list that succeed for the product, by position
Succeeded(pdf_list, p) ==
    {i \in 1..Len(pdf_list) :
        pdf_list[i].product_id = p /\ Readable(pdf_list[i].pdf_path)}

\* the last position in a non-empty set of positions
Last(positions) == CHOOSE i \in positions : \A j \in positions : j <= i

\* C25: batch_process_pdfs and the batch-upload endpoint return one
\* status entry per item of the list, in list order, success for an item
\* that was processed and error for one that failed, whatever came
\* before it; the endpoint leaves a product untouched (or absent) unless
\* an item for it succeeded, and then stores what the last such item
\* produced; batch_process_pdfs leaves the store alone.
C25_BatchIsolatesFailures ==
    [][(outcome.op = "none"
        /\ outcome'.op \in {"batch_process_pdfs", "batch_upload_pdfs"}) =>
          LET pdf_list == outcome'.pdf_list
              results == outcome'.results
          IN  /\ Len(results) = Len(pdf_list)
              /\ \A i \in 1..Len(pdf_list) :
                    /\ results[i].product_id = pdf_list[i].product_id
                    /\ results[i].status = IF Readable(pdf_list[i].pdf_path)
                                           THEN "success" ELSE "error"
              /\ outcome'.op = "batch_process_pdfs" => products' = products
              /\ outcome'.op = "batch_upload_pdfs" =>
                    \A p \in ProductIds :
                        IF Succeeded(pdf_list, p) = {}
                        THEN /\ p \in DOMAIN products' <=> p \in DOMAIN products
                             /\ p \in DOMAIN products => products'[p] = products[p]
                        ELSE LET item == pdf_list[Last(Succeeded(pdf_list, p))]
                             IN  /\ p \in DOMAIN products'
                                 /\ products'[p] =
                                        ProductDict(p, item.product_name,
                                                    Manual(item.pdf_path))
      ]_vars

\* a batch upload whose first and last item failed and whose second
\* item stored its product
C25_Witness ==
    /\ outcome.op = "batch_upload_pdfs"
    /\ Len(outcome.results) = 3
    /\ outcome.results[1].status = "error"
    /\ outcome.results[2].status = "success"
    /\ outcome.results[3].status = "error"
    /\ outcome.results[2].product_id \in DOMAIN products
    /\ products[outcome.results[2].product_id].documents
           = Manual(outcome.pdf_list[2].pdf_path).documents

\* C26: a process_audio call on an active session hands the responder
\* the (up to) 5 chunks of the session's product that rank highest for
\* the transcript, whatever embedding the transcript has.
C26_AudioUsesMostRelevantChunks ==
    \A call \in calls :
        (call.op = "process_audio" /\ call.before = "active") =>
            \A q \in QueryEmbeddings \ {<<>>} :
                {call.relevant_docs[i].id : i \in 1..Len(call.relevant_docs)}
                  = LET ranked == search_similar(q,
                            active_sessions[call.sid].product_context.documents, 5)
                    IN  {ranked[i].id : i \in 1..Len(ranked)}

\* C28: a session whose status is ended stays ended, and no later step
\* changes its conversation history or its installation progress, also
\* not the return of a call that was suspended when end_session ran.
C28_EndedIsTerminal ==
    [][\A s \in DOMAIN active_sessions :
           active_sessions[s].status = "ended" =>
               /\ s \in DOMAIN active_sessions'
               /\ active_sessions'[s].status = "ended"
               /\ active_sessions'[s].conversation_history = History(s)
               /\ active_sessions'[s].installation_progress = Progress(s)
      ]_vars

\* C29: when the WebSocket handler that created a session has
\* terminated, its connection entry is gone from active_connections and
\* its session is not active.
C29_TerminatedHandlerEndsSession ==
    \A c \in ConnIds :
        (ws[c].pc = "closed" /\ ws[c].session_id \in DOMAIN active_sessions) =>
            /\ ws[c].connection_id \notin DOMAIN active_connections
            /\ StatusOf(ws[c].session_id) # "active"

\* C30: after any sequence of add_product, update_product_metadata and
\* delete_product calls, a new ProductManager that loads the storage
\* holds the same product ids as the running one, each with the same
\* name, total_pages and documents.
C30_PersistenceRoundTrip ==
    /\ DOMAIN load_all_products = DOMAIN products
    /\ \A p \in DOMAIN products :
          /\ load_all_products[p].name = products[p].name
          /\ load_all_products[p].total_pages = products[p].total_pages
          /\ load_all_products[p].documents = products[p].documents

====
